---------------------------- MODULE Spec2Model ----------------------------
(***************************************************************************)
(* TradPredict: the data preparation of DRLTradingModel (_process_data),   *)
(* its scoring policy (_generate_signal) and its one-period backtest       *)
(* (run_policy_and_backtest), driven as the Streamlit script app.py drives *)
(* them: a file is uploaded, a model is instantiated on a copy of the      *)
(* loaded frame, and the policy is run for a symbol.                       *)
(*                                                                         *)
(* Numbers.  Python floats are modelled as exact rationals [n, d] in       *)
(* lowest terms with d > 0, extended with the IEEE special values the code *)
(* can produce: NaN is [n |-> 0, d |-> 0] and +-inf is [n |-> +-1, d |-> 0].*)
(* Binary rounding of float64 is not modelled.                             *)
(***************************************************************************)
EXTENDS Integers, Sequences, FiniteSets, TLC

VARIABLES data, drl_model, ret, results

vars == <<data, drl_model, ret, results>>

(***************************************************************************)
(* Bounds of the model.                                                    *)
(***************************************************************************)
MaxRows == 2

(***************************************************************************)
(* Python's None; an optional value x is held as <<x>>.                    *)
(***************************************************************************)
None == <<>>

Some(x) == <<x>>

(***************************************************************************)
(* Float arithmetic.                                                       *)
(***************************************************************************)
Abs(i) == IF i < 0 THEN -i ELSE i

RECURSIVE GCD(_, _)
GCD(a, b) == IF b = 0 THEN a ELSE GCD(b, a % b)

NaN == [n |-> 0, d |-> 0]

Inf(sign) == [n |-> sign, d |-> 0]

IsNaN(a) == a.d = 0 /\ a.n = 0

IsFinite(a) == a.d # 0

Sign(i) == IF i > 0 THEN 1 ELSE IF i < 0 THEN -1 ELSE 0

\* n/d for d # 0, in lowest terms with a positive denominator
Rat(n, d) ==
    LET s == IF d < 0 THEN -1 ELSE 1
        g == GCD(Abs(n), Abs(d))
    IN  [n |-> (s * n) \div g, d |-> (s * d) \div g]

FNeg(a) == [n |-> -a.n, d |-> a.d]

FAbs(a) == [n |-> Abs(a.n), d |-> a.d]

FAdd(a, b) ==
    IF IsNaN(a) \/ IsNaN(b) THEN NaN
    ELSE IF ~IsFinite(a) /\ ~IsFinite(b) THEN (IF a.n = b.n THEN a ELSE NaN)
    ELSE IF ~IsFinite(a) THEN a
    ELSE IF ~IsFinite(b) THEN b
    ELSE LET g == GCD(a.d, b.d)
             l == (a.d \div g) * b.d
         IN  Rat(a.n * (l \div a.d) + b.n * (l \div b.d), l)

FSub(a, b) == FAdd(a, FNeg(b))

FMul(a, b) ==
    IF IsNaN(a) \/ IsNaN(b) THEN NaN
    ELSE IF ~IsFinite(a) \/ ~IsFinite(b)
         THEN (IF a.n = 0 \/ b.n = 0 THEN NaN ELSE Inf(Sign(a.n) * Sign(b.n)))
    ELSE LET g1 == GCD(Abs(a.n), b.d)
             g2 == GCD(Abs(b.n), a.d)
         IN  [n |-> (a.n \div g1) * (b.n \div g2),
              d |-> (a.d \div g2) * (b.d \div g1)]

\* numpy float64 division: x/0 is +-inf, 0/0 is nan (a warning, no exception)
FDiv(a, b) ==
    IF IsNaN(a) \/ IsNaN(b) THEN NaN
    ELSE IF ~IsFinite(b) THEN (IF IsFinite(a) THEN Rat(0, 1) ELSE NaN)
    ELSE IF b.n = 0 THEN (IF a.n = 0 THEN NaN ELSE Inf(Sign(a.n)))
    ELSE IF ~IsFinite(a) THEN Inf(Sign(a.n) * Sign(b.n))
    ELSE FMul(a, Rat(b.d, b.n))

\* a < b; every comparison with NaN is false
FLt(a, b) ==
    IF IsNaN(a) \/ IsNaN(b) THEN FALSE
    ELSE IF ~IsFinite(a) THEN a.n < 0 /\ a # b
    ELSE IF ~IsFinite(b) THEN b.n > 0
    ELSE a.n * b.d < b.n * a.d

FGt(a, b) == FLt(b, a)

\* int(x) of a finite float: truncation toward zero
Trunc(a) ==
    IF a.n >= 0 THEN a.n \div a.d ELSE -((-a.n) \div a.d)

Pow10(k) == IF k = 2 THEN 100 ELSE 10000

\* the number a format specification ",.kf" prints: a rounded to k decimals,
\* ties to even; nan prints as nan
Fmt(a, k) ==
    IF ~IsFinite(a) THEN a
    ELSE LET N == a.n * Pow10(k)
             q == N \div a.d
             r == N % a.d
             up == 2 * r > a.d \/ (2 * r = a.d /\ q % 2 = 1)
         IN  Rat(IF up THEN q + 1 ELSE q, Pow10(k))


(***************************************************************************)
(* The uploaded table.  A frame is [columns, dtype, rows]: the set of its  *)
(* column names, the dtype of each price column it has ("object" for text, *)
(* "float64" for numbers) and its rows, each a function from the column    *)
(* names to cells.  The cell of a price column is [obj, val]: the text     *)
(* (a sequence of characters) of an object cell, or the number of a float  *)
(* cell.  The cells of the numeric columns are floats, of Symbol a string. *)
(***************************************************************************)
cols_to_clean == <<"Open", "High", "Low", "LTP", "Turnover (crs.)", "52w H", "52w L">>

PriceCols == {cols_to_clean[i] : i \in 1..Len(cols_to_clean)}

InputColumns ==
    PriceCols \cup {"Symbol", "30 d % chng", "365 d % chng", "Volume (lacs)"}

ObjCell(text) == [obj |-> text, val |-> NaN]

NumCell(x) == [obj |-> <<>>, val |-> x]

DigitChars == <<"0", "1", "2", "3", "4", "5", "6", "7", "8", "9">>

RECURSIVE Digits(_)
Digits(v) ==
    IF v < 10 THEN <<DigitChars[v + 1]>>
    ELSE Append(Digits(v \div 10), DigitChars[(v % 10) + 1])

RECURSIVE Grouped(_)
Grouped(s) ==
    IF Len(s) <= 3 THEN s
    ELSE Grouped(SubSeq(s, 1, Len(s) - 3)) \o <<",">> \o SubSeq(s, Len(s) - 2, Len(s))

\* the text of a price in the snapshot CSV: digits with thousands separators
PriceText(v) == Grouped(Digits(v))

\* str.replace(',', '', regex=False)
StripCommas(s) == SelectSeq(s, LAMBDA c : c # ",")

DigitValue(c) == CHOOSE i \in 0..9 : DigitChars[i + 1] = c

IsDigit(c) == \E i \in 0..9 : DigitChars[i + 1] = c

\* whether float(s) succeeds, for the texts of unsigned integers; any other
\* text ('' or '-') raises ValueError
Parsable(s) == Len(s) > 0 /\ \A i \in 1..Len(s) : IsDigit(s[i])

RECURSIVE DecimalValue(_)
DecimalValue(s) ==
    IF Len(s) = 0 THEN 0
    ELSE 10 * DecimalValue(SubSeq(s, 1, Len(s) - 1)) + DigitValue(s[Len(s)])

\* float(s)
ParseFloat(s) == Rat(DecimalValue(s), 1)

(***************************************************************************)
(* The uploaded files the model draws from.  A row has one of the sample   *)
(* trends (365-day change, 30-day change, LTP) and volumes, and the i-th   *)
(* row the i-th symbol.  The files are the snapshots of up to MaxRows rows *)
(* whose prices are text with thousands separators and, of the snapshots   *)
(* of at most one row: those whose prices are text or numbers, those with  *)
(* one column dropped, and those whose first LTP is '-'.                   *)
(***************************************************************************)
Trends ==
    { [c365 |-> 30, c30 |-> 0, ltp |-> 2500],
      [c365 |-> 30, c30 |-> 10, ltp |-> 2500],
      [c365 |-> -30, c30 |-> 0, ltp |-> 3000],
      [c365 |-> -30, c30 |-> -10, ltp |-> 2500],
      [c365 |-> 50, c30 |-> -10, ltp |-> 3000] }

FlatTrend == [c365 |-> 0, c30 |-> 5, ltp |-> 2500]

Volumes == {0, 2}

SymbolAt == <<"RELIANCE", "TCS", "INFY", "HDFCBANK">>

AbsentSymbol == "WIPRO"

MkRow(sym, t, vol, dt) ==
    [c \in InputColumns |->
        IF c = "Symbol" THEN sym
        ELSE IF c = "30 d % chng" THEN Rat(t.c30, 1)
        ELSE IF c = "365 d % chng" THEN Rat(t.c365, 1)
        ELSE IF c = "Volume (lacs)" THEN Rat(vol, 1)
        ELSE IF dt = "object" THEN ObjCell(PriceText(t.ltp))
        ELSE NumCell(Rat(t.ltp, 1))]

MkFrame(ts, vs, dt) ==
    [columns |-> InputColumns,
     dtype   |-> [c \in PriceCols |-> dt],
     rows    |-> [i \in 1..Len(ts) |-> MkRow(SymbolAt[i], ts[i], vs[i], dt)]]

\* a header-only CSV reads every column as object
EmptyFrame == MkFrame(<<>>, <<>>, "object")

FullFrames ==
    {EmptyFrame} \cup
    UNION { {MkFrame(ts, vs, "object") : ts \in [1..k -> Trends], vs \in [1..k -> Volumes]}
            : k \in 1..MaxRows }

SmallFrames ==
    {EmptyFrame} \cup
    {MkFrame(<<t>>, <<v>>, dt) : t \in Trends \cup {FlatTrend}, v \in Volumes,
                                 dt \in {"object", "float64"}}

DropColumn(f, c) ==
    [columns |-> f.columns \ {c},
     dtype   |-> [k \in DOMAIN f.dtype \ {c} |-> f.dtype[k]],
     rows    |-> [i \in 1..Len(f.rows) |-> [k \in DOMAIN f.rows[i] \ {c} |-> f.rows[i][k]]]]

\* the LTP of the first row is '-'
DashLTP(f) ==
    [f EXCEPT !.rows[1]["LTP"] = ObjCell(<<"-">>)]

UploadedFiles ==
    FullFrames \cup SmallFrames
    \cup {DropColumn(f, c) : f \in SmallFrames, c \in InputColumns}
    \cup {DashLTP(f) : f \in {g \in SmallFrames : Len(g.rows) > 0 /\ g.dtype["LTP"] = "object"}}

(***************************************************************************)
(* DRLTradingModel._process_data(df).  It works on the frame it is given,  *)
(* column by column; an exception leaves in df what was assigned before.   *)
(* The value is [exc, df]: the exception raised ("" for none) and the      *)
(* frame object as the call leaves it.                                     *)
(***************************************************************************)
SetColumn(df, col, vals) ==
    [df EXCEPT !.columns = @ \cup {col},
               !.rows = [i \in 1..Len(df.rows) |->
                            [k \in DOMAIN df.rows[i] \cup {col} |->
                                IF k = col THEN vals[i] ELSE df.rows[i][k]]]]

RECURSIVE CleanColumns(_, _)
CleanColumns(df, i) ==
    IF i > Len(cols_to_clean) THEN [exc |-> "", df |-> df]
    ELSE LET col == cols_to_clean[i] IN
         IF col \notin df.columns THEN [exc |-> "KeyError", df |-> df]
         ELSE IF df.dtype[col] = "object"
              THEN LET texts == [r \in 1..Len(df.rows) |-> StripCommas(df.rows[r][col].obj)]
                   IN  IF \E r \in 1..Len(df.rows) : ~Parsable(texts[r])
                       THEN [exc |-> "ValueError", df |-> df]
                       ELSE CleanColumns(
                                [SetColumn(df, col,
                                           [r \in 1..Len(df.rows) |-> NumCell(ParseFloat(texts[r]))])
                                   EXCEPT !.dtype[col] = "float64"],
                                i + 1)
              ELSE CleanColumns(df, i + 1)

\* x['30 d % chng'] / x['365 d % chng'] if abs(x['365 d % chng']) > 0.01 else 0 :
\* the 30-day column is read only when the condition holds
MomentumRaises(df) ==
    \/ "365 d % chng" \notin df.columns
    \/ /\ "30 d % chng" \notin df.columns
       /\ \E r \in 1..Len(df.rows) : FGt(FAbs(df.rows[r]["365 d % chng"]), Rat(1, 100))

Momentum_Score(x) ==
    IF FGt(FAbs(x["365 d % chng"]), Rat(1, 100))
    THEN FDiv(x["30 d % chng"], x["365 d % chng"])
    ELSE Rat(0, 1)

RECURSIVE SumColumn(_, _, _)
SumColumn(df, col, r) ==
    IF r = 0 THEN Rat(0, 1) ELSE FAdd(SumColumn(df, col, r - 1), df.rows[r][col])

\* Series.mean(): the sum over the count, nan for an empty column
Mean(df, col) == FDiv(SumColumn(df, col, Len(df.rows)), Rat(Len(df.rows), 1))

\* df['Volume_Ratio'] = df['Volume (lacs)'] / df['Volume (lacs)'].mean()
AddVolumeRatio(d2) ==
    IF "Volume (lacs)" \notin d2.columns THEN [exc |-> "KeyError", df |-> d2]
    ELSE [exc |-> "",
          df  |-> SetColumn(d2, "Volume_Ratio",
                            [r \in 1..Len(d2.rows) |->
                                FDiv(d2.rows[r]["Volume (lacs)"], Mean(d2, "Volume (lacs)"))])]

\* df['Momentum_Score'] = df.apply(lambda x: ..., axis=1), then the volume ratio.
\* df.apply(f, axis=1) on a frame without rows calls f on no row of the frame.
\* What it returns depends on the pandas installed.  "reduce": pandas tries f on
\* a row of nan; when that returns a number the result is an empty Series,
\* which becomes the new column, and when it raises (no 365-day column) the
\* result is a copy of the frame.  "frame": the result is a copy of the frame.
\* Assigning a frame of several columns to the single column raises ValueError.
AddMomentum(d1, empty_apply) ==
    IF Len(d1.rows) = 0 /\ (empty_apply = "frame" \/ "365 d % chng" \notin d1.columns)
    THEN [exc |-> "ValueError", df |-> d1]
    ELSE IF Len(d1.rows) > 0 /\ MomentumRaises(d1) THEN [exc |-> "KeyError", df |-> d1]
    ELSE AddVolumeRatio(SetColumn(d1, "Momentum_Score",
                                  [r \in 1..Len(d1.rows) |-> Momentum_Score(d1.rows[r])]))

AfterClean(cleaned, empty_apply) ==
    IF cleaned.exc # "" THEN cleaned ELSE AddMomentum(cleaned.df, empty_apply)

_process_data(df, empty_apply) == AfterClean(CleanColumns(df, 1), empty_apply)

(***************************************************************************)
(* DRLTradingModel(stock_df, initial_capital): [exc, self, stock_df], the  *)
(* exception raised, the object constructed (None when __init__ raised)    *)
(* and the frame object passed in as the constructor leaves it.            *)
(***************************************************************************)
NewModel(p, initial_capital) ==
    [exc      |-> p.exc,
     self     |-> IF p.exc # "" THEN None
                  ELSE Some([df              |-> p.df,
                             initial_capital |-> initial_capital,
                             risk_free_rate  |-> FDiv(Rat(5, 100), Rat(252, 1))]),
     stock_df |-> p.df]

DRLTradingModel(stock_df, initial_capital, empty_apply) ==
    NewModel(_process_data(stock_df, empty_apply), initial_capital)

Returned(m, d) == [exc |-> m.exc, model |-> m.self, data |-> d]

\* an instantiation that hands the caller's frame itself to the constructor
ReturnedAliased(m) == [exc |-> m.exc, model |-> m.self, data |-> m.stock_df]

instantiate_model_nocopy(d, initial_capital, empty_apply) ==
    ReturnedAliased(DRLTradingModel(d, initial_capital, empty_apply))

\* DRLTradingModel(data.copy(), initial_capital): the constructor works on a
\* copy, so the caller's frame stays as it was
instantiate_model(d, initial_capital, empty_apply) ==
    Returned(DRLTradingModel(d, initial_capital, empty_apply), d)

(***************************************************************************)
(* The policy and the backtest.                                            *)
(***************************************************************************)
drl_score_of(row) ==
    FAdd(FAdd(FDiv(FMul(Rat(5, 10), row["365 d % chng"]), Rat(100, 1)),
              FDiv(FMul(Rat(3, 10), row["30 d % chng"]), Rat(100, 1))),
         FMul(Rat(2, 10), FSub(row["Volume_Ratio"], Rat(1, 1))))

\* a policy whose thresholds are inclusive
_generate_signal_inclusive(row) ==
    IF ~FLt(drl_score_of(row), Rat(15, 100)) /\ ~IsNaN(drl_score_of(row)) THEN "BUY"
    ELSE IF ~FGt(drl_score_of(row), Rat(-15, 100)) /\ ~IsNaN(drl_score_of(row)) THEN "SELL"
    ELSE "HOLD"

_generate_signal(row) ==
    LET score == FAdd(FAdd(FDiv(FMul(Rat(5, 10), row["365 d % chng"]), Rat(100, 1)),
                           FDiv(FMul(Rat(3, 10), row["30 d % chng"]), Rat(100, 1))),
                      FMul(Rat(2, 10), FSub(row["Volume_Ratio"], Rat(1, 1))))
    IN  IF FGt(score, Rat(15, 100)) THEN "BUY"
        ELSE IF FLt(score, Rat(-15, 100)) THEN "SELL"
        ELSE "HOLD"

drl_score(stock_data) ==
    FAdd(FAdd(FDiv(FMul(Rat(5, 10), stock_data["365 d % chng"]), Rat(100, 1)),
              FDiv(FMul(Rat(3, 10), stock_data["30 d % chng"]), Rat(100, 1))),
         FMul(Rat(2, 10), FSub(stock_data["Volume_Ratio"], Rat(1, 1))))

\* the BUY branch: [shares_to_buy, investment, simulated_profit, final_capital,
\* cumulative_return]
Position(self, shares_to_buy, investment, simulated_profit) ==
    [shares_to_buy     |-> shares_to_buy,
     investment        |-> investment,
     simulated_profit  |-> simulated_profit,
     final_capital     |-> FAdd(Rat(self.initial_capital, 1), simulated_profit),
     cumulative_return |-> FDiv(simulated_profit, Rat(self.initial_capital, 1))]

Invest(self, ltp, hypothetical_return_pct, shares_to_buy) ==
    Position(self, shares_to_buy, FMul(Rat(shares_to_buy, 1), ltp),
             FMul(FMul(Rat(shares_to_buy, 1), ltp), hypothetical_return_pct))

\* a BUY branch that rounds the number of shares to the nearest integer
Buy_rounded(self, ltp, hypothetical_return_pct) ==
    Invest(self, ltp, hypothetical_return_pct,
           Trunc(FAdd(FDiv(FMul(Rat(self.initial_capital, 1), Rat(2, 10)), ltp), Rat(1, 2))))

Buy(self, ltp, hypothetical_return_pct) ==
    Invest(self, ltp, hypothetical_return_pct,
           Trunc(FDiv(FMul(Rat(self.initial_capital, 1), Rat(2, 10)), ltp)))

\* the values before the branch, which SELL and HOLD leave as they are
NoTrade(self) ==
    [shares_to_buy     |-> 0,
     investment        |-> Rat(0, 1),
     simulated_profit  |-> Rat(0, 1),
     final_capital     |-> Rat(self.initial_capital, 1),
     cumulative_return |-> Rat(0, 1)]

\* a branch that takes a short position on SELL
Trade_short(self, signal, ltp, hypothetical_return_pct) ==
    IF signal = "BUY" THEN Buy(self, ltp, hypothetical_return_pct)
    ELSE IF signal = "SELL" THEN Buy(self, ltp, FNeg(hypothetical_return_pct))
    ELSE NoTrade(self)

Trade(self, signal, ltp, hypothetical_return_pct) ==
    IF signal = "BUY" THEN Buy(self, ltp, hypothetical_return_pct) ELSE NoTrade(self)

Line(text, args) == [text |-> text, args |-> args]

action_log(signal, score, hypothetical_return_pct, t) ==
    IF signal = "BUY"
    THEN << Line("**Autonomous BUY Signal** triggered by DRL Score: {:,.4f}.", <<Fmt(score, 4)>>),
            Line("Shares Purchased: {}. Initial Investment: {:,.2f}.",
                 <<Rat(t.shares_to_buy, 1), Fmt(t.investment, 2)>>),
            Line("Simulated Profit (using 30d return as proxy): {:,.2f}.",
                 <<Fmt(t.simulated_profit, 2)>>) >>
    ELSE IF signal = "SELL"
    THEN IF FLt(hypothetical_return_pct, Rat(0, 1)) /\ FLt(score, Rat(0, 1))
         THEN << Line("**Autonomous SELL Signal** triggered by DRL Score: {:,.4f}.", <<Fmt(score, 4)>>),
                 Line("Decision: HOLD CASH. **Risk Managed: Avoided a potential loss**.", <<>>) >>
         ELSE << Line("**Autonomous SELL Signal** triggered by DRL Score: {:,.4f}.", <<Fmt(score, 4)>>),
                 Line("Decision: HOLD CASH (Neutral Stance).", <<>>) >>
    ELSE << Line("**Autonomous HOLD Signal** triggered by DRL Score: {:,.4f}.", <<Fmt(score, 4)>>),
            Line("Decision: HOLD CASH (Waiting for clearer trend).", <<>>) >>

\* a Sharpe ratio reported as computed
Sharpe_Ratio_unclamped(self, cumulative_return) ==
    FDiv(FSub(cumulative_return, self.risk_free_rate), Rat(1, 10))

\* sharpe_ratio = (cumulative_return - self.risk_free_rate) / 0.1, reported as
\* 'Sharpe_Ratio': sharpe_ratio if cumulative_return > 0 else 0.0
Sharpe_Ratio(self, cumulative_return) ==
    IF FGt(cumulative_return, Rat(0, 1))
    THEN FDiv(FSub(cumulative_return, self.risk_free_rate), Rat(1, 10))
    ELSE Rat(0, 1)

\* the metrics dictionary and the pair returned
Report(self, symbol, stock_data, signal, score, hypothetical_return_pct, t) ==
    [exc        |-> "",
     self       |-> self,
     metrics    |-> Some([Symbol            |-> symbol,
                          LTP               |-> stock_data["LTP"].val,
                          Chng30d           |-> stock_data["30 d % chng"],
                          Chng365d          |-> stock_data["365 d % chng"],
                          DRL_Score         |-> score,
                          Final_Signal      |-> signal,
                          Initial_Capital   |-> self.initial_capital,
                          Final_Capital     |-> t.final_capital,
                          Cumulative_Return |-> t.cumulative_return,
                          Sharpe_Ratio      |-> Sharpe_Ratio(self, t.cumulative_return),
                          Simulated_Profit  |-> t.simulated_profit]),
     action_log |-> action_log(signal, score, hypothetical_return_pct, t)]

Simulate(self, symbol, stock_data, signal, score, hypothetical_return_pct) ==
    Report(self, symbol, stock_data, signal, score, hypothetical_return_pct,
           Trade(self, signal, stock_data["LTP"].val, hypothetical_return_pct))

\* the row found: the signal, the score and the simulation, or the exception
\* of a column the row lacks
Backtest(self, symbol, stock_data) ==
    IF "30 d % chng" \notin DOMAIN stock_data
    THEN [exc |-> "KeyError", self |-> self, metrics |-> None, action_log |-> <<>>]
    ELSE Simulate(self, symbol, stock_data, _generate_signal(stock_data),
                  drl_score(stock_data), FDiv(stock_data["30 d % chng"], Rat(100, 1)))

NotFound == <<Line("Stock symbol not found in data.", <<>>)>>

\* self.df[self.df['Symbol'] == symbol].iloc[0]
FirstRow(df, symbol) ==
    df.rows[CHOOSE i \in 1..Len(df.rows) :
                /\ df.rows[i]["Symbol"] = symbol
                /\ \A j \in 1..(i - 1) : df.rows[j]["Symbol"] # symbol]

SymbolValues(df) == {df.rows[i]["Symbol"] : i \in 1..Len(df.rows)}

\* a backtest that keeps the capital it ends with
Spend(r) ==
    IF r.metrics = None THEN r
    ELSE [r EXCEPT !.self.initial_capital = Trunc(r.metrics[1].Final_Capital)]

run_policy_and_backtest_spend(self, symbol) ==
    IF "Symbol" \notin self.df.columns
    THEN [exc |-> "KeyError", self |-> self, metrics |-> None, action_log |-> <<>>]
    ELSE IF symbol \notin SymbolValues(self.df)
    THEN [exc |-> "", self |-> self, metrics |-> None, action_log |-> NotFound]
    ELSE Spend(Backtest(self, symbol, FirstRow(self.df, symbol)))

\* [exc, self, metrics, action_log]: the exception raised, the object as the
\* call leaves it, and the pair returned
run_policy_and_backtest(self, symbol) ==
    IF "Symbol" \notin self.df.columns
    THEN [exc |-> "KeyError", self |-> self, metrics |-> None, action_log |-> <<>>]
    ELSE IF symbol \notin SymbolValues(self.df)
    THEN [exc |-> "", self |-> self, metrics |-> None, action_log |-> NotFound]
    ELSE Backtest(self, symbol, FirstRow(self.df, symbol))

(***************************************************************************)
(* The script.  data is the frame load_data returned (None before a file   *)
(* is uploaded), drl_model the object instantiate_model returned (None     *)
(* when it raised), ret the outcome of the last call, and results the      *)
(* outcomes run_policy_and_backtest has returned per symbol since the      *)
(* model was instantiated.                                                 *)
(***************************************************************************)
Capitals == {100000, 1000000}

EmptyApply == {"reduce", "frame"}

SymbolChoices == {SymbolAt[i] : i \in 1..MaxRows} \cup {AbsentSymbol}

Outcome(op, exc, symbol, metrics, log) ==
    [op |-> op, exc |-> exc, symbol |-> symbol, metrics |-> metrics, action_log |-> log]

NoResults == [s \in SymbolChoices |-> {}]

Init ==
    /\ data = None
    /\ drl_model = None
    /\ ret = Outcome("start", "", "", None, <<>>)
    /\ results = NoResults

\* data = load_data(uploaded_file.getvalue()), for the file of this session
Upload ==
    /\ data = None
    /\ \E f \in UploadedFiles : data' = Some(f)
    /\ drl_model' = None
    /\ ret' = Outcome("load_data", "", "", None, <<>>)
    /\ results' = NoResults

\* drl_model = instantiate_model(data, initial_capital), cached from then on
Instantiated(r) ==
    /\ data' = Some(r.data)
    /\ drl_model' = r.model
    /\ ret' = Outcome("instantiate_model", r.exc, "", None, <<>>)
    /\ results' = NoResults

InstantiateWith(initial_capital, empty_apply) ==
    Instantiated(instantiate_model(data[1], initial_capital, empty_apply))

Instantiate ==
    /\ data # None
    /\ drl_model = None
    /\ \E c \in Capitals, e \in EmptyApply : InstantiateWith(c, e)

\* metrics, action_log = drl_model.run_policy_and_backtest(selected_symbol)
Ran(symbol, r) ==
    /\ drl_model' = Some(r.self)
    /\ ret' = Outcome("run_policy_and_backtest", r.exc, symbol, r.metrics, r.action_log)
    /\ results' = [results EXCEPT ![symbol] = @ \cup {<<r.exc, r.metrics, r.action_log>>}]
    /\ UNCHANGED data

RunFor(symbol) == Ran(symbol, run_policy_and_backtest(drl_model[1], symbol))

Run ==
    /\ drl_model # None
    /\ \E s \in SymbolChoices : RunFor(s)

Next ==
    \/ Upload
    \/ Instantiate
    \/ Run

Spec == Init /\ [][Next]_vars

(***************************************************************************)
(* Properties.                                                             *)
(***************************************************************************)
\* the last call was run_policy_and_backtest and it returned metrics
Reported == ret.op = "run_policy_and_backtest" /\ ret.metrics # None

\* the prepared record of the symbol last asked for
Record == FirstRow(drl_model[1].df, ret.symbol)

LessEq(a, b) == FLt(a, b) \/ (IsFinite(a) /\ a = b)

\* 0.5*(change365d/100) + 0.3*(change30d/100) + 0.2*(volumeRatio - 1)
CompositeScore(row) ==
    FAdd(FAdd(FMul(Rat(1, 2), FDiv(row["365 d % chng"], Rat(100, 1))),
              FMul(Rat(3, 10), FDiv(row["30 d % chng"], Rat(100, 1)))),
         FMul(Rat(1, 5), FSub(row["Volume_Ratio"], Rat(1, 1))))

\* C1: every reported DRL_Score is the composite score of the prepared record,
\* and the reported Final_Signal is BUY exactly when that score is strictly
\* above 0.15, SELL exactly when it is strictly below -0.15, HOLD otherwise
\* (so a score of 0.15 or of -0.15 is HOLD).
C1_SignalMatchesScore ==
    Reported =>
        /\ ret.metrics[1].DRL_Score = CompositeScore(Record)
        /\ ret.metrics[1].Final_Signal = "BUY" <=> FGt(ret.metrics[1].DRL_Score, Rat(15, 100))
        /\ ret.metrics[1].Final_Signal = "SELL" <=> FLt(ret.metrics[1].DRL_Score, Rat(-15, 100))
        /\ ret.metrics[1].Final_Signal = "HOLD" <=>
              (~FGt(ret.metrics[1].DRL_Score, Rat(15, 100))
                 /\ ~FLt(ret.metrics[1].DRL_Score, Rat(-15, 100)))

\* a score of exactly 0.15 was reported, as HOLD
C1_Witness ==
    /\ Reported
    /\ ret.metrics[1].DRL_Score = Rat(15, 100)
    /\ ret.metrics[1].Final_Signal = "HOLD"

\* C2: a SELL or HOLD result has Simulated_Profit 0, Cumulative_Return 0 and
\* Final_Capital equal to Initial_Capital, whatever the 30-day change, the LTP
\* and the capital.
C2_NoTradeOnSellHold ==
    (Reported /\ ret.metrics[1].Final_Signal \in {"SELL", "HOLD"}) =>
        /\ ret.metrics[1].Simulated_Profit = Rat(0, 1)
        /\ ret.metrics[1].Cumulative_Return = Rat(0, 1)
        /\ ret.metrics[1].Final_Capital = Rat(ret.metrics[1].Initial_Capital, 1)

\* a SELL was reported for a record whose 30-day change is -10
C2_Witness ==
    /\ Reported
    /\ ret.metrics[1].Final_Signal = "SELL"
    /\ ret.metrics[1].Chng30d = Rat(-10, 1)
    /\ ret.metrics[1].Final_Capital = Rat(ret.metrics[1].Initial_Capital, 1)

\* C3: the reported Sharpe_Ratio is 0 whenever Cumulative_Return <= 0 and is
\* (Cumulative_Return - 0.05/252) / 0.1 whenever Cumulative_Return > 0.
C3_SharpeClamped ==
    Reported =>
        /\ LessEq(ret.metrics[1].Cumulative_Return, Rat(0, 1))
              => ret.metrics[1].Sharpe_Ratio = Rat(0, 1)
        /\ FGt(ret.metrics[1].Cumulative_Return, Rat(0, 1))
              => ret.metrics[1].Sharpe_Ratio =
                    FMul(FSub(ret.metrics[1].Cumulative_Return, Rat(5, 25200)), Rat(10, 1))

\* a BUY with a loss was reported, its Sharpe_Ratio 0 although the formula
\* gives a negative number
C3_Witness ==
    /\ Reported
    /\ ret.metrics[1].Final_Signal = "BUY"
    /\ FLt(ret.metrics[1].Cumulative_Return, Rat(0, 1))
    /\ ret.metrics[1].Sharpe_Ratio = Rat(0, 1)

\* floor(0.2 * capital / ltp) for a positive ltp
FloorShares(capital, ltp) == (capital * ltp.d) \div (5 * ltp.n)

\* C4: on BUY, sharesToBuy = floor(0.2*initialCapital/ltp), investment =
\* sharesToBuy*ltp, simulatedProfit = investment*(change30d/100), finalCapital =
\* initialCapital + simulatedProfit, cumulativeReturn = simulatedProfit /
\* initialCapital (shares and investment as the log's second line prints them).
C4_BuyArithmetic ==
    (Reported /\ ret.metrics[1].Final_Signal = "BUY") =>
        /\ ret.action_log[2].args[1] =
              Rat(FloorShares(ret.metrics[1].Initial_Capital, ret.metrics[1].LTP), 1)
        /\ ret.action_log[2].args[2] =
              Fmt(FMul(ret.action_log[2].args[1], ret.metrics[1].LTP), 2)
        /\ ret.metrics[1].Simulated_Profit =
              FMul(FMul(ret.action_log[2].args[1], ret.metrics[1].LTP),
                   FDiv(ret.metrics[1].Chng30d, Rat(100, 1)))
        /\ ret.metrics[1].Final_Capital =
              FAdd(Rat(ret.metrics[1].Initial_Capital, 1), ret.metrics[1].Simulated_Profit)
        /\ ret.metrics[1].Cumulative_Return =
              FDiv(ret.metrics[1].Simulated_Profit, Rat(ret.metrics[1].Initial_Capital, 1))

\* the example: capital 1,000,000, LTP 2,500, 30-day change 10 gives 80 shares,
\* investment 200,000, profit 20,000, final capital 1,020,000, return 0.02
C4_Witness ==
    /\ Reported
    /\ ret.metrics[1].Final_Signal = "BUY"
    /\ ret.metrics[1].Initial_Capital = 1000000
    /\ ret.metrics[1].LTP = Rat(2500, 1)
    /\ ret.metrics[1].Chng30d = Rat(10, 1)
    /\ ret.action_log[2].args = <<Rat(80, 1), Rat(200000, 1)>>
    /\ ret.metrics[1].Simulated_Profit = Rat(20000, 1)
    /\ ret.metrics[1].Final_Capital = Rat(1020000, 1)
    /\ ret.metrics[1].Cumulative_Return = Rat(2, 100)

\* C5: a run for a symbol that is not in the prepared dataset (of at least one
\* record) returns the not-found failure: no metrics, the not-found message,
\* no exception.
C5_AbsentSymbolNotFound ==
    (ret.op = "run_policy_and_backtest" /\ drl_model # None
       /\ Len(drl_model[1].df.rows) >= 1
       /\ \A i \in 1..Len(drl_model[1].df.rows) :
             ("Symbol" \in DOMAIN drl_model[1].df.rows[i]
                => drl_model[1].df.rows[i]["Symbol"] # ret.symbol)) =>
        /\ ret.exc = ""
        /\ ret.metrics = None
        /\ ret.action_log = NotFound

\* C6: instantiating on a dataset (of at least one row) that lacks one of the
\* required columns fails and leaves no model.
C6_MissingColumnRejected ==
    (/\ data # None
     /\ ret.op # "load_data"
     /\ Len(data[1].rows) >= 1
     /\ ~(InputColumns \subseteq data[1].columns)) =>
        (drl_model = None /\ ret.exc # "")

\* C7: instantiating on a dataset without rows (and with every required
\* column) fails and leaves no model.
C7_EmptyDatasetRejected ==
    (/\ data # None
     /\ ret.op # "load_data"
     /\ InputColumns \subseteq data[1].columns
     /\ Len(data[1].rows) = 0) =>
        (drl_model = None /\ ret.exc # "")

\* C8: a run leaves the model (its dataset and capital) and the uploaded frame
\* as they were, and returns what every earlier run for the same symbol
\* returned since the model was instantiated, whatever ran in between.
C8_RunIsPure ==
    [][ret'.op = "run_policy_and_backtest" =>
          /\ drl_model' = drl_model
          /\ data' = data
          /\ results'[ret'.symbol] = {<<ret'.exc, ret'.metrics, ret'.action_log>>}]_vars

\* runs for two present symbols and for an absent one have all happened, and
\* the last returned metrics
C8_Witness ==
    /\ Reported
    /\ ret.symbol = SymbolAt[1]
    /\ results[SymbolAt[2]] # {}
    /\ results[AbsentSymbol] # {}
    /\ \E r \in results[SymbolAt[2]] : r[2] # None

\* C9: when all the records (at least one, with every required column) have
\* the same Volume (lacs), every prepared record has Volume_Ratio 1, also when
\* that volume is 0.
C9_EqualVolumesRatioOne ==
    (/\ drl_model # None
     /\ InputColumns \subseteq drl_model[1].df.columns
     /\ Len(drl_model[1].df.rows) >= 1
     /\ \A i \in 1..Len(drl_model[1].df.rows) :
           drl_model[1].df.rows[i]["Volume (lacs)"] = drl_model[1].df.rows[1]["Volume (lacs)"]) =>
        \A i \in 1..Len(drl_model[1].df.rows) :
            drl_model[1].df.rows[i]["Volume_Ratio"] = Rat(1, 1)

\* C10: instantiating leaves the uploaded frame as it was, and preparing the
\* prepared frame again raises nothing and yields the same frame.
C10_PrepareIdempotent ==
    [][\A c \in Capitals, e \in EmptyApply :
          (data # None /\ drl_model = None /\ InstantiateWith(c, e)) =>
              /\ data' = data
              /\ drl_model' # None =>
                    _process_data(drl_model'[1].df, e) = [exc |-> "", df |-> drl_model'[1].df]]_vars

\* a model was instantiated from a frame whose prices are text: the model's
\* frame holds numbers, the uploaded frame still the text
C10_Witness ==
    /\ ret.op = "instantiate_model"
    /\ drl_model # None
    /\ Len(data[1].rows) > 0
    /\ data[1].dtype["LTP"] = "object"
    /\ data[1].rows[1]["LTP"] = ObjCell(<<"2", ",", "5", "0", "0">>)
    /\ drl_model[1].df.dtype["LTP"] = "float64"
    /\ drl_model[1].df.rows[1]["LTP"] = NumCell(Rat(2500, 1))

=============================================================================
